---- MODULE Spec2Model ----
(***************************************************************************)
(* Model of monitor_domains.py: one batch run of the domain monitor.       *)
(*                                                                         *)
(* Text is modelled as a sequence of one-character strings, so that        *)
(* str.lower, str.strip, str.startswith, str.split and the `in` substring  *)
(* test are computed character by character.  A formatted line (an         *)
(* f-string) is the sequence of its literal parts, each one token, and of  *)
(* the characters of its interpolated values.  The Chinese literals of the *)
(* source are written as ASCII stand-ins (the parser accepts ASCII only):  *)
(*   "domain available"           for the message returned at line 81      *)
(*   "domain registered"          for the message returned at line 85     *)
(*   "unable to determine status" for the message returned at line 87     *)
(*   "lookup timed out"           for the message returned at line 90     *)
(*   "lookup error: "             for the prefix of the message, line 92  *)
(* The two file operations the source does not guard (writing             *)
(* available_domains.txt, appending to the GITHUB_OUTPUT path) are taken   *)
(* to succeed; every outcome of the whois process and of the SMTP session  *)
(* is a nondeterministic choice.                                           *)
(***************************************************************************)
EXTENDS Integers, Sequences, FiniteSets, TLC

VARIABLES
    fileExists,         \* whether WATCHLIST_FILE exists
    fileLines,          \* the lines of WATCHLIST_FILE as `for line in f` yields them
    SMTP_USER,          \* module-level configuration, read once from the environment
    SMTP_PASSWORD,
    NOTIFY_EMAIL,
    GITHUB_OUTPUT,      \* os.getenv("GITHUB_OUTPUT"): None, "" or a path
    pc,                 \* position of main()
    domains,            \* main: domains
    idx,                \* index of the loop `for domain in domains` (1-based)
    available_domains,  \* main: available_domains
    spawned,            \* argv of every whois process started, in order
    running,            \* number of whois processes started and not yet returned
    lookups,            \* per finished lookup: outcome of the process and the tuple returned
    sendCalls,          \* number of calls of send_email
    sendOutcome,        \* how the call of send_email ended
    sendResult,         \* value returned by send_email
    smtpLog,            \* SMTP operations performed, in order
    delivered,          \* messages accepted by the mail relay
    resultFile,         \* available_domains.txt: [state, opens, lines]
    wIdx,               \* index of the loop `for d in available_domains` at line 212
    ghAppended,         \* lines appended to the GITHUB_OUTPUT file by this run
    exitCode,           \* process exit code, -1 while running
    stdout,             \* check_domain_whois applied alone: result.stdout
    verdict             \* check_domain_whois applied alone: the tuple returned

vars == <<fileExists, fileLines, SMTP_USER, SMTP_PASSWORD, NOTIFY_EMAIL,
          GITHUB_OUTPUT, pc, domains, idx, available_domains, spawned, running,
          lookups, sendCalls, sendOutcome, sendResult, smtpLog, delivered,
          resultFile, wIdx, ghAppended, exitCode, stdout, verdict>>

-----------------------------------------------------------------------------
(* Bounds of the model.                                                    *)

MaxLines == 2
MaxLineLen == 2
MaxWatch == 2
MaxFrags == 2

-----------------------------------------------------------------------------
(* Strings.                                                                *)

UPPER ==
    <<"A","B","C","D","E","F","G","H","I","J","K","L","M",
      "N","O","P","Q","R","S","T","U","V","W","X","Y","Z">>

LOWER ==
    <<"a","b","c","d","e","f","g","h","i","j","k","l","m",
      "n","o","p","q","r","s","t","u","v","w","x","y","z">>

\* str.lower() on one character.
char_lower(c) ==
    IF \E i \in 1..Len(UPPER) : UPPER[i] = c
    THEN LOWER[CHOOSE i \in 1..Len(UPPER) : UPPER[i] = c]
    ELSE c

\* str.lower()
lower(s) ==
    [i \in 1..Len(s) |-> char_lower(s[i])]

\* The characters str.strip() removes.
WHITESPACE ==
    {" ", "\t", "\n", "\r"}

RECURSIVE lstrip(_)
lstrip(s) ==
    IF s = <<>> THEN s
    ELSE IF Head(s) \in WHITESPACE THEN lstrip(Tail(s)) ELSE s

RECURSIVE rstrip(_)
rstrip(s) ==
    IF s = <<>> THEN s
    ELSE IF s[Len(s)] \in WHITESPACE THEN rstrip(SubSeq(s, 1, Len(s) - 1)) ELSE s

\* Only the leading whitespace removed: lstrip() where strip() is meant.
strip_leading_only(s) ==
    lstrip(s)

\* str.strip()
strip(s) ==
    rstrip(lstrip(s))

\* str.startswith(p)
startswith(s, p) ==
    /\ Len(p) <= Len(s)
    /\ SubSeq(s, 1, Len(p)) = p

\* `k in s` on strings: k is a substring of s.
contains(s, k) ==
    \E i \in 0..(Len(s) - Len(k)) : SubSeq(s, i + 1, i + Len(k)) = k

\* Truth value of a string or of None.
None == "<None>"

truthy(v) ==
    v # None /\ v # ""

RECURSIVE concat(_)
concat(ss) ==
    IF ss = <<>> THEN <<>> ELSE Head(ss) \o concat(Tail(ss))

DIGITS ==
    <<"0","1","2","3","4","5","6","7","8","9">>

\* str(n) as an f-string interpolates it, for n >= 0.
RECURSIVE int_str(_)
int_str(n) ==
    IF n < 10 THEN <<DIGITS[n + 1]>>
    ELSE Append(int_str(n \div 10), DIGITS[(n % 10) + 1])

-----------------------------------------------------------------------------
(* load_watchlist                                                          *)

\* The body of `for line in f` (lines 154-158) over the remaining lines.
RECURSIVE load_lines(_, _)
load_lines(lines, acc) ==
    IF lines = <<>> THEN acc
    ELSE LET line == strip(Head(lines))
         IN  IF line # <<>> /\ ~startswith(line, <<"#">>)
             THEN load_lines(Tail(lines), Append(acc, lower(line)))
             ELSE load_lines(Tail(lines), acc)

\* load_watchlist(filepath) when the file exists.
load_watchlist(lines) ==
    load_lines(lines, <<>>)

-----------------------------------------------------------------------------
(* get_whois_server                                                        *)

\* domain.split(".")[-1]: the text after the last ".", the whole text if none.
RECURSIVE last_label(_)
last_label(s) ==
    IF s = <<>> THEN <<>>
    ELSE IF s[Len(s)] = "." THEN <<>>
    ELSE Append(last_label(SubSeq(s, 1, Len(s) - 1)), s[Len(s)])

\* The dict `servers`, as (suffix, server) pairs.
servers ==
    << << <<"x","y","z">>,     <<"whois.nic.xyz">> >>,
       << <<"c","o","m">>,     <<"whois.verisign-grs.com">> >>,
       << <<"n","e","t">>,     <<"whois.verisign-grs.com">> >>,
       << <<"o","r","g">>,     <<"whois.pir.org">> >>,
       << <<"i","o">>,         <<"whois.nic.io">> >>,
       << <<"c","o">>,         <<"whois.nic.co">> >>,
       << <<"m","e">>,         <<"whois.nic.me">> >>,
       << <<"i","n","f","o">>, <<"whois.afilias.net">> >>,
       << <<"t","o","p">>,     <<"whois.nic.top">> >>,
       << <<"c","n">>,         <<"whois.cnnic.cn">> >> >>

get_whois_server(domain) ==
    LET tld == lower(last_label(domain))
    IN  IF \E i \in 1..Len(servers) : servers[i][1] = tld
        THEN servers[CHOOSE i \in 1..Len(servers) : servers[i][1] = tld][2]
        ELSE <<"whois.nic.">> \o tld

-----------------------------------------------------------------------------
(* check_domain_whois                                                      *)

not_found_keywords ==
    << <<"d","o","m","a","i","n"," ","n","o","t"," ","f","o","u","n","d">>,
       <<"n","o"," ","m","a","t","c","h">>,
       <<"n","o","t"," ","f","o","u","n","d">>,
       <<"n","o"," ","d","a","t","a"," ","f","o","u","n","d">>,
       <<"n","o"," ","e","n","t","r","i","e","s"," ","f","o","u","n","d">>,
       <<"s","t","a","t","u","s",":"," ","f","r","e","e">>,
       <<"s","t","a","t","u","s",":"," ","a","v","a","i","l","a","b","l","e">>,
       <<"o","b","j","e","c","t"," ","d","o","e","s"," ","n","o","t"," ","e","x","i","s","t">> >>

KW_DOMAIN_NAME ==
    <<"d","o","m","a","i","n"," ","n","a","m","e",":">>

KW_REGISTRAR ==
    <<"r","e","g","i","s","t","r","a","r",":">>

\* The loop of lines 79-81: TRUE when some keyword, tried in list order, is in output.
RECURSIVE any_keyword_in(_, _)
any_keyword_in(keywords, output) ==
    IF keywords = <<>> THEN FALSE
    ELSE IF contains(output, Head(keywords)) THEN TRUE
    ELSE any_keyword_in(Tail(keywords), output)

\* What subprocess.run can do: return with captured stdout, raise
\* TimeoutExpired, or raise another exception.
ProcStdout(text) ==
    [kind |-> "stdout", text |-> text]

ProcTimeout ==
    [kind |-> "timeout", text |-> <<>>]

ProcError(e) ==
    [kind |-> "exception", text |-> <<e>>]

\* Registered before available: the two tests of lines 79-85 in the wrong order.
check_domain_whois_swapped(proc) ==
    IF proc.kind = "timeout" THEN <<FALSE, <<"lookup timed out">>>>
    ELSE IF proc.kind = "exception" THEN <<FALSE, <<"lookup error: ">> \o proc.text>>
    ELSE LET output == lower(proc.text)
         IN  IF contains(output, KW_DOMAIN_NAME) \/ contains(output, KW_REGISTRAR)
             THEN <<FALSE, <<"domain registered">>>>
             ELSE IF any_keyword_in(not_found_keywords, output)
             THEN <<TRUE, <<"domain available">>>>
             ELSE <<FALSE, <<"unable to determine status">>>>

\* check_domain_whois(domain), as a function of what subprocess.run did.
check_domain_whois(proc) ==
    IF proc.kind = "timeout" THEN <<FALSE, <<"lookup timed out">>>>
    ELSE IF proc.kind = "exception" THEN <<FALSE, <<"lookup error: ">> \o proc.text>>
    ELSE LET output == lower(proc.text)
         IN  IF any_keyword_in(not_found_keywords, output)
             THEN <<TRUE, <<"domain available">>>>
             ELSE IF contains(output, KW_DOMAIN_NAME) \/ contains(output, KW_REGISTRAR)
             THEN <<FALSE, <<"domain registered">>>>
             ELSE <<FALSE, <<"unable to determine status">>>>

-----------------------------------------------------------------------------
(* send_email                                                              *)

\* datetime.now().strftime("%Y-%m-%d %H:%M:%S"): its value plays no part in
\* any branch of the program.
Timestamp ==
    "YYYY-mm-dd HH:MM:SS"

\* Lines 104-126: the subject and the HTML body, as sequences of tokens.
email_subject(available) ==
    <<"domain available - found ">> \o int_str(Len(available)) \o <<" available domains!">>

RECURSIVE email_items(_)
email_items(available) ==
    IF available = <<>> THEN <<>>
    ELSE <<"<li>", "<strong>">> \o Head(available) \o <<"</strong>", "</li>", "\n">>
         \o email_items(Tail(available))

email_body(available) ==
    <<"<html>", "<ul>">> \o email_items(available) \o <<"</ul>", Timestamp, "</html>">>

\* Lines 129-133.
email_message(available, from, to) ==
    [Subject |-> email_subject(available), From |-> from, To |-> to,
     body |-> email_body(available)]

\* Lines 136-139: the operations of the SMTP session, in order.  __exit__ of
\* the session sends QUIT whenever the connection was established.
SMTP_STEPS ==
    <<"connect", "starttls", "login", "send_message", "quit">>

SmtpFailures ==
    {SMTP_STEPS[i] : i \in 1..Len(SMTP_STEPS)}

smtp_position(step) ==
    CHOOSE i \in 1..Len(SMTP_STEPS) : SMTP_STEPS[i] = step

\* The operations attempted when `failure` is the one that raises ("none": no one does).
smtp_attempted(failure) ==
    IF failure = "none" THEN SMTP_STEPS
    ELSE IF failure \in {"connect", "quit"} THEN SubSeq(SMTP_STEPS, 1, smtp_position(failure))
    ELSE Append(SubSeq(SMTP_STEPS, 1, smtp_position(failure)), "quit")

\* Whether the relay has accepted the message when `failure` raises.
smtp_submitted(failure) ==
    failure \in {"none", "quit"}

-----------------------------------------------------------------------------
(* The run.                                                                *)

\* Watchlist files of the run: two domain lines and a comment line.
WatchLines ==
    { <<"a",".","i","o","\n">>,
      <<" ","B",".","D","e"," ","\n">>,
      <<"#","c","\n">> }

RECURSIVE SeqsUpTo(_, _)
SeqsUpTo(S, n) ==
    IF n = 0 THEN {<<>>}
    ELSE LET shorter == SeqsUpTo(S, n - 1)
         IN  shorter \cup {Append(q, x) : q \in {r \in shorter : Len(r) = n - 1}, x \in S}

\* What the whois process of one lookup can do.
WhoisOutcomes ==
    { ProcTimeout,
      ProcError("[Errno 2] No such file or directory: 'whois'"),
      ProcStdout(<<"N","o"," ","m","a","t","c","h">>),
      ProcStdout(<<"R","e","g","i","s","t","r","a","r",":">>),
      ProcStdout(<<"x">>) }

CredentialValues ==
    {"", "set"}

Idle ==
    /\ stdout = <<>>
    /\ verdict = <<>>

InitRun ==
    /\ pc = "start"
    /\ domains = <<>>
    /\ idx = 1
    /\ available_domains = <<>>
    /\ spawned = <<>>
    /\ running = 0
    /\ lookups = <<>>
    /\ sendCalls = 0
    /\ sendOutcome = "not called"
    /\ sendResult = FALSE
    /\ smtpLog = <<>>
    /\ delivered = <<>>
    /\ resultFile = [state |-> "untouched", opens |-> 0, lines |-> <<>>]
    /\ wIdx = 1
    /\ ghAppended = <<>>
    /\ exitCode = -1

Init ==
    /\ fileExists \in BOOLEAN
    /\ fileLines \in (IF fileExists THEN SeqsUpTo(WatchLines, MaxWatch) ELSE {<<>>})
    /\ SMTP_USER \in CredentialValues
    /\ SMTP_PASSWORD \in CredentialValues
    /\ NOTIFY_EMAIL \in CredentialValues
    /\ GITHUB_OUTPUT \in {None, "", "/tmp/github_output"}
    /\ InitRun
    /\ Idle

\* A missing file read as an empty watchlist instead of ending the process.
LoadWatchlist_missing_as_empty ==
    /\ pc = "start"
    /\ domains' = IF fileExists THEN load_watchlist(fileLines) ELSE <<>>
    /\ IF domains' = <<>>
       THEN pc' = "done" /\ exitCode' = 0
       ELSE pc' = "loop" /\ UNCHANGED exitCode
    /\ UNCHANGED <<fileExists, fileLines, SMTP_USER, SMTP_PASSWORD, NOTIFY_EMAIL,
                   GITHUB_OUTPUT, idx, available_domains, spawned, running, lookups,
                   sendCalls, sendOutcome, sendResult, smtpLog, delivered, resultFile,
                   wIdx, ghAppended, stdout, verdict>>

\* Lines 174-178 with load_watchlist (149-163).
LoadWatchlist ==
    /\ pc = "start"
    /\ IF ~fileExists
       THEN /\ pc' = "exited"
            /\ exitCode' = 1
            /\ UNCHANGED domains
       ELSE /\ domains' = load_watchlist(fileLines)
            /\ IF domains' = <<>>
               THEN pc' = "done" /\ exitCode' = 0
               ELSE pc' = "loop" /\ UNCHANGED exitCode
    /\ UNCHANGED <<fileExists, fileLines, SMTP_USER, SMTP_PASSWORD, NOTIFY_EMAIL,
                   GITHUB_OUTPUT, idx, available_domains, spawned, running, lookups,
                   sendCalls, sendOutcome, sendResult, smtpLog, delivered,
                   resultFile, wIdx, ghAppended, stdout, verdict>>

\* Lines 187-190 and 55-63: the next domain's whois process is started.
LookupStart ==
    /\ pc = "loop"
    /\ idx <= Len(domains)
    /\ spawned' = Append(spawned, [program |-> "whois",
                                    h |-> get_whois_server(domains[idx]),
                                    domain |-> domains[idx]])
    /\ running' = running + 1
    /\ pc' = "wait"
    /\ UNCHANGED <<fileExists, fileLines, SMTP_USER, SMTP_PASSWORD, NOTIFY_EMAIL,
                   GITHUB_OUTPUT, domains, idx, available_domains, lookups,
                   sendCalls, sendOutcome, sendResult, smtpLog, delivered,
                   resultFile, wIdx, ghAppended, exitCode, stdout, verdict>>

\* A domain already in available_domains is not appended again.
LookupFinish_dedup ==
    /\ pc = "wait"
    /\ \E proc \in WhoisOutcomes :
          LET result == check_domain_whois(proc)
          IN  /\ lookups' = Append(lookups, [domain |-> domains[idx], proc |-> proc,
                                            is_available |-> result[1], info |-> result[2]])
              /\ available_domains' =
                     IF result[1] /\ \A i \in 1..Len(available_domains) :
                                         available_domains[i] # domains[idx]
                     THEN Append(available_domains, domains[idx])
                     ELSE available_domains
    /\ running' = running - 1
    /\ idx' = idx + 1
    /\ pc' = IF idx + 1 <= Len(domains) THEN "loop" ELSE "report"
    /\ UNCHANGED <<fileExists, fileLines, SMTP_USER, SMTP_PASSWORD, NOTIFY_EMAIL,
                   GITHUB_OUTPUT, domains, spawned, sendCalls, sendOutcome, sendResult,
                   smtpLog, delivered, resultFile, wIdx, ghAppended, exitCode, stdout,
                   verdict>>

\* A lookup that timed out is tried again instead of moving to the next domain.
LookupFinish_retry ==
    /\ pc = "wait"
    /\ \E proc \in WhoisOutcomes :
          LET result == check_domain_whois(proc)
              again == proc.kind = "timeout"
          IN  /\ lookups' = Append(lookups, [domain |-> domains[idx], proc |-> proc,
                                            is_available |-> result[1], info |-> result[2]])
              /\ available_domains' = IF result[1]
                                      THEN Append(available_domains, domains[idx])
                                      ELSE available_domains
              /\ idx' = IF again THEN idx ELSE idx + 1
              /\ pc' = IF again \/ idx + 1 <= Len(domains) THEN "loop" ELSE "report"
    /\ running' = running - 1
    /\ UNCHANGED <<fileExists, fileLines, SMTP_USER, SMTP_PASSWORD, NOTIFY_EMAIL,
                   GITHUB_OUTPUT, domains, spawned, sendCalls, sendOutcome, sendResult,
                   smtpLog, delivered, resultFile, wIdx, ghAppended, exitCode, stdout,
                   verdict>>

\* Lines 63-92 and 190-196: subprocess.run returns or raises, the result is
\* classified and the loop moves on.
LookupFinish ==
    /\ pc = "wait"
    /\ \E proc \in WhoisOutcomes :
          LET result == check_domain_whois(proc)
          IN  /\ lookups' = Append(lookups, [domain |-> domains[idx], proc |-> proc,
                                            is_available |-> result[1], info |-> result[2]])
              /\ available_domains' = IF result[1]
                                      THEN Append(available_domains, domains[idx])
                                      ELSE available_domains
    /\ running' = running - 1
    /\ idx' = idx + 1
    /\ pc' = IF idx + 1 <= Len(domains) THEN "loop" ELSE "report"
    /\ UNCHANGED <<fileExists, fileLines, SMTP_USER, SMTP_PASSWORD, NOTIFY_EMAIL,
                   GITHUB_OUTPUT, domains, spawned,
                   sendCalls, sendOutcome, sendResult, smtpLog, delivered,
                   resultFile, wIdx, ghAppended, exitCode, stdout, verdict>>

\* send_email called whether or not available_domains is empty.
SendEmail_unguarded ==
    /\ pc = "report"
    /\ sendCalls' = sendCalls + 1
    /\ IF ~(truthy(SMTP_USER) /\ truthy(SMTP_PASSWORD) /\ truthy(NOTIFY_EMAIL))
       THEN /\ sendOutcome' = "incomplete"
            /\ sendResult' = FALSE
            /\ UNCHANGED <<smtpLog, delivered>>
       ELSE \E failure \in SmtpFailures \cup {"none"} :
               /\ smtpLog' = smtpLog \o smtp_attempted(failure)
               /\ delivered' = IF smtp_submitted(failure)
                               THEN Append(delivered,
                                           email_message(available_domains, SMTP_USER,
                                                         NOTIFY_EMAIL))
                               ELSE delivered
               /\ sendOutcome' = failure
               /\ sendResult' = (failure = "none")
    /\ pc' = "save"
    /\ UNCHANGED <<fileExists, fileLines, SMTP_USER, SMTP_PASSWORD, NOTIFY_EMAIL,
                   GITHUB_OUTPUT, domains, idx, available_domains, spawned, running,
                   lookups, resultFile, wIdx, ghAppended, exitCode, stdout, verdict>>

\* A failure of the SMTP session is not caught and ends the process.
SendEmail_uncaught ==
    /\ pc = "report"
    /\ available_domains # <<>>
    /\ sendCalls' = sendCalls + 1
    /\ IF ~(truthy(SMTP_USER) /\ truthy(SMTP_PASSWORD) /\ truthy(NOTIFY_EMAIL))
       THEN /\ sendOutcome' = "incomplete"
            /\ sendResult' = FALSE
            /\ pc' = "save"
            /\ UNCHANGED exitCode
            /\ UNCHANGED <<smtpLog, delivered>>
       ELSE \E failure \in SmtpFailures \cup {"none"} :
               /\ smtpLog' = smtpLog \o smtp_attempted(failure)
               /\ delivered' = IF smtp_submitted(failure)
                               THEN Append(delivered,
                                           email_message(available_domains, SMTP_USER,
                                                         NOTIFY_EMAIL))
                               ELSE delivered
               /\ sendOutcome' = failure
               /\ sendResult' = (failure = "none")
               /\ IF failure = "none"
                  THEN pc' = "save" /\ UNCHANGED exitCode
                  ELSE pc' = "exited" /\ exitCode' = 1
    /\ UNCHANGED <<fileExists, fileLines, SMTP_USER, SMTP_PASSWORD, NOTIFY_EMAIL,
                   GITHUB_OUTPUT, domains, idx, available_domains, spawned, running,
                   lookups, resultFile, wIdx, ghAppended, stdout, verdict>>

\* Lines 201-207 with send_email (95-146).
SendEmail ==
    /\ pc = "report"
    /\ available_domains # <<>>
    /\ sendCalls' = sendCalls + 1
    /\ IF ~(truthy(SMTP_USER) /\ truthy(SMTP_PASSWORD) /\ truthy(NOTIFY_EMAIL))
       THEN /\ sendOutcome' = "incomplete"
            /\ sendResult' = FALSE
            /\ UNCHANGED <<smtpLog, delivered>>
       ELSE \E failure \in SmtpFailures \cup {"none"} :
               /\ smtpLog' = smtpLog \o smtp_attempted(failure)
               /\ delivered' = IF smtp_submitted(failure)
                               THEN Append(delivered,
                                           email_message(available_domains, SMTP_USER,
                                                         NOTIFY_EMAIL))
                               ELSE delivered
               /\ sendOutcome' = failure
               /\ sendResult' = (failure = "none")
    /\ pc' = "save"
    /\ UNCHANGED <<fileExists, fileLines, SMTP_USER, SMTP_PASSWORD, NOTIFY_EMAIL,
                   GITHUB_OUTPUT, domains, idx, available_domains, spawned, running,
                   lookups, resultFile, wIdx, ghAppended, exitCode, stdout, verdict>>

\* Lines 210-211: the file is opened for writing (truncated) and the
\* timestamp comment line is written.
OpenResultFile ==
    /\ pc = "save"
    /\ resultFile' = [state |-> "open", opens |-> resultFile.opens + 1,
                      lines |-> << <<"#", " ", "check time: ", Timestamp, "\n">> >>]
    /\ wIdx' = 1
    /\ pc' = "write"
    /\ UNCHANGED <<fileExists, fileLines, SMTP_USER, SMTP_PASSWORD, NOTIFY_EMAIL,
                   GITHUB_OUTPUT, domains, idx, available_domains, spawned, running,
                   lookups, sendCalls, sendOutcome, sendResult, smtpLog, delivered,
                   ghAppended, exitCode, stdout, verdict>>

\* Lines 212-213: one iteration of `for d in available_domains`.
WriteDomainLine ==
    /\ pc = "write"
    /\ wIdx <= Len(available_domains)
    /\ resultFile' = [resultFile EXCEPT
                        !.lines = Append(@, Append(available_domains[wIdx], "\n"))]
    /\ wIdx' = wIdx + 1
    /\ UNCHANGED <<fileExists, fileLines, SMTP_USER, SMTP_PASSWORD, NOTIFY_EMAIL,
                   GITHUB_OUTPUT, pc, domains, idx, available_domains, spawned, running,
                   lookups, sendCalls, sendOutcome, sendResult, smtpLog, delivered,
                   ghAppended, exitCode, stdout, verdict>>

\* End of the `with` block of line 210: the file is closed.
CloseResultFile ==
    /\ pc = "write"
    /\ wIdx > Len(available_domains)
    /\ resultFile' = [resultFile EXCEPT !.state = "closed"]
    /\ pc' = "output"
    /\ UNCHANGED <<fileExists, fileLines, SMTP_USER, SMTP_PASSWORD, NOTIFY_EMAIL,
                   GITHUB_OUTPUT, domains, idx, available_domains, spawned, running,
                   lookups, sendCalls, sendOutcome, sendResult, smtpLog, delivered,
                   wIdx, ghAppended, exitCode, stdout, verdict>>

\* The count line states the size of the watchlist, not of available_domains.
SetOutputAvailable_watchlist_count ==
    /\ pc = "output"
    /\ ghAppended' = IF truthy(GITHUB_OUTPUT)
                     THEN ghAppended \o << <<"available=true", "\n">>,
                                           <<"count=">> \o int_str(Len(domains))
                                                        \o <<"\n">> >>
                     ELSE ghAppended
    /\ pc' = "done"
    /\ exitCode' = 0
    /\ UNCHANGED <<fileExists, fileLines, SMTP_USER, SMTP_PASSWORD, NOTIFY_EMAIL,
                   GITHUB_OUTPUT, domains, idx, available_domains, spawned, running,
                   lookups, sendCalls, sendOutcome, sendResult, smtpLog, delivered,
                   resultFile, wIdx, stdout, verdict>>

\* Lines 216-219, then main returns.
SetOutputAvailable ==
    /\ pc = "output"
    /\ ghAppended' = IF truthy(GITHUB_OUTPUT)
                     THEN ghAppended \o << <<"available=true", "\n">>,
                                           <<"count=">> \o int_str(Len(available_domains))
                                                        \o <<"\n">> >>
                     ELSE ghAppended
    /\ pc' = "done"
    /\ exitCode' = 0
    /\ UNCHANGED <<fileExists, fileLines, SMTP_USER, SMTP_PASSWORD, NOTIFY_EMAIL,
                   GITHUB_OUTPUT, domains, idx, available_domains, spawned, running,
                   lookups, sendCalls, sendOutcome, sendResult, smtpLog, delivered,
                   resultFile, wIdx, stdout, verdict>>

\* The result file is written in the branch without available domains too.
SetOutputNone_writes_file ==
    /\ pc = "report"
    /\ available_domains = <<>>
    /\ resultFile' = [state |-> "closed", opens |-> resultFile.opens + 1,
                      lines |-> << <<"#", " ", "check time: ", Timestamp, "\n">> >>]
    /\ ghAppended' = IF truthy(GITHUB_OUTPUT)
                     THEN Append(ghAppended, <<"available=false", "\n">>)
                     ELSE ghAppended
    /\ pc' = "done"
    /\ exitCode' = 0
    /\ UNCHANGED <<fileExists, fileLines, SMTP_USER, SMTP_PASSWORD, NOTIFY_EMAIL,
                   GITHUB_OUTPUT, domains, idx, available_domains, spawned, running,
                   lookups, sendCalls, sendOutcome, sendResult, smtpLog, delivered,
                   wIdx, stdout, verdict>>

\* A count line is appended in the branch without available domains too.
SetOutputNone_with_count ==
    /\ pc = "report"
    /\ available_domains = <<>>
    /\ ghAppended' = IF truthy(GITHUB_OUTPUT)
                     THEN ghAppended \o << <<"available=false", "\n">>,
                                           <<"count=">> \o int_str(Len(available_domains))
                                                        \o <<"\n">> >>
                     ELSE ghAppended
    /\ pc' = "done"
    /\ exitCode' = 0
    /\ UNCHANGED <<fileExists, fileLines, SMTP_USER, SMTP_PASSWORD, NOTIFY_EMAIL,
                   GITHUB_OUTPUT, domains, idx, available_domains, spawned, running,
                   lookups, sendCalls, sendOutcome, sendResult, smtpLog, delivered,
                   resultFile, wIdx, stdout, verdict>>

\* Lines 220-224, then main returns.
SetOutputNone ==
    /\ pc = "report"
    /\ available_domains = <<>>
    /\ ghAppended' = IF truthy(GITHUB_OUTPUT)
                     THEN Append(ghAppended, <<"available=false", "\n">>)
                     ELSE ghAppended
    /\ pc' = "done"
    /\ exitCode' = 0
    /\ UNCHANGED <<fileExists, fileLines, SMTP_USER, SMTP_PASSWORD, NOTIFY_EMAIL,
                   GITHUB_OUTPUT, domains, idx, available_domains, spawned, running,
                   lookups, sendCalls, sendOutcome, sendResult, smtpLog, delivered,
                   resultFile, wIdx, stdout, verdict>>

Next ==
    \/ LoadWatchlist
    \/ LookupStart
    \/ LookupFinish
    \/ SendEmail
    \/ OpenResultFile
    \/ WriteDomainLine
    \/ CloseResultFile
    \/ SetOutputAvailable
    \/ SetOutputNone

Spec ==
    Init /\ [][Next]_vars

-----------------------------------------------------------------------------
(* load_watchlist on its own: the first step of the run, over every short  *)
(* file of a small alphabet and the file of the documented example.        *)

LoadAlphabet ==
    {" ", "#", "A"}

\* A line as the file iterator yields it: its text and the line terminator.
LoadLines ==
    {Append(t, "\n") : t \in SeqsUpTo(LoadAlphabet, MaxLineLen)}

ExampleFile ==
    << <<"e","x","a","m","p","l","e",".","c","o","m","\n">>,
       <<"\n">>,
       <<"#"," ","c","o","m","m","e","n","t","\n">>,
       <<" "," ","T","E","S","T",".","I","O"," "," ","\n">> >>

\* The same file when its last line has no terminator.
without_final_newline(lines) ==
    IF lines = <<>> THEN lines
    ELSE [lines EXCEPT ![Len(lines)] = SubSeq(@, 1, Len(@) - 1)]

LoadFiles ==
    LET terminated == SeqsUpTo(LoadLines, MaxLines) \cup {ExampleFile}
    IN  terminated \cup {without_final_newline(f) : f \in terminated}

InitLoad ==
    /\ fileExists \in BOOLEAN
    /\ fileLines \in (IF fileExists THEN LoadFiles ELSE {<<>>})
    /\ SMTP_USER = ""
    /\ SMTP_PASSWORD = ""
    /\ NOTIFY_EMAIL = ""
    /\ GITHUB_OUTPUT = None
    /\ InitRun
    /\ Idle

NextLoad ==
    LoadWatchlist

SpecLoad ==
    InitLoad /\ [][NextLoad]_vars

-----------------------------------------------------------------------------
(* check_domain_whois on its own, over response texts put together from    *)
(* fragments of registry replies.                                          *)

Fragments ==
    { <<"N","o"," ","m","a","t","c","h">>,
      <<"N","O","T"," ","F","O","U","N","D">>,
      <<"D","o","m","a","i","n"," ">>,
      <<"D","o","m","a","i","n"," ","N","a","m","e",":">>,
      <<"R","e","g","i","s","t","r","a","r",":">>,
      <<"N","o"," ","D","a","t","a"," ","F","o","u","n","d">>,
      <<"N","o"," ","e","n","t","r","i","e","s"," ","f","o","u","n","d">>,
      <<"S","t","a","t","u","s",":"," ">>,
      <<"f","r","e","e">>,
      <<"A","V","A","I","L","A","B","L","E">>,
      <<"O","b","j","e","c","t"," ","d","o","e","s"," ","n","o","t"," ","e","x","i","s","t">>,
      <<"n","o","t"," ","f","o">>,
      <<"u","n","d">>,
      <<"r","e","g","i","s","t","r">>,
      <<"a","r",":">>,
      <<"x">>,
      <<"S","t","a","t","u","s",":"," ","c","o","n","n","e","c","t">> }

Responses ==
    {concat(fs) : fs \in SeqsUpTo(Fragments, MaxFrags)}

InitClassify ==
    /\ fileExists = TRUE
    /\ fileLines = <<>>
    /\ SMTP_USER = ""
    /\ SMTP_PASSWORD = ""
    /\ NOTIFY_EMAIL = ""
    /\ GITHUB_OUTPUT = None
    /\ InitRun
    /\ stdout \in Responses
    /\ verdict = <<>>

\* Lines 65-87 applied to the captured stdout.
Classify ==
    /\ verdict = <<>>
    /\ verdict' = check_domain_whois(ProcStdout(stdout))
    /\ UNCHANGED <<fileExists, fileLines, SMTP_USER, SMTP_PASSWORD, NOTIFY_EMAIL,
                   GITHUB_OUTPUT, pc, domains, idx, available_domains, spawned, running,
                   lookups, sendCalls, sendOutcome, sendResult, smtpLog, delivered,
                   resultFile, wIdx, ghAppended, exitCode, stdout>>

NextClassify ==
    Classify

SpecClassify ==
    InitClassify /\ [][NextClassify]_vars

-----------------------------------------------------------------------------
(* Properties.                                                             *)

\* phrase occurs in text when letter case is ignored.
OccursIgnoringCase(text, phrase) ==
    \E i \in 1..Len(text) :
        /\ i + Len(phrase) - 1 <= Len(text)
        /\ \A j \in 1..Len(phrase) : char_lower(text[i + j - 1]) = phrase[j]

NotFoundPhrases ==
    { <<"d","o","m","a","i","n"," ","n","o","t"," ","f","o","u","n","d">>,
      <<"n","o"," ","m","a","t","c","h">>,
      <<"n","o","t"," ","f","o","u","n","d">>,
      <<"n","o"," ","d","a","t","a"," ","f","o","u","n","d">>,
      <<"n","o"," ","e","n","t","r","i","e","s"," ","f","o","u","n","d">>,
      <<"s","t","a","t","u","s",":"," ","f","r","e","e">>,
      <<"s","t","a","t","u","s",":"," ","a","v","a","i","l","a","b","l","e">>,
      <<"o","b","j","e","c","t"," ","d","o","e","s"," ","n","o","t"," ","e","x","i","s","t">> }

RegisteredPhrases ==
    { <<"d","o","m","a","i","n"," ","n","a","m","e",":">>,
      <<"r","e","g","i","s","t","r","a","r",":">> }

HasNotFound(text) ==
    \E p \in NotFoundPhrases : OccursIgnoringCase(text, p)

HasRegistered(text) ==
    \E p \in RegisteredPhrases : OccursIgnoringCase(text, p)

\* C1: a lookup that returns text is classified available exactly when the
\* text holds one of the eight not-found phrases in any letter case, whether
\* or not it also holds "domain name:" or "registrar:"; otherwise registered
\* exactly when it holds "domain name:" or "registrar:"; otherwise
\* indeterminate.  Every text gets exactly one of the three results.
C1_Classification ==
    verdict # <<>> =>
        /\ Cardinality(NotFoundPhrases) = 8
        /\ verdict \in { <<TRUE, <<"domain available">>>>,
                         <<FALSE, <<"domain registered">>>>,
                         <<FALSE, <<"unable to determine status">>>> }
        /\ (verdict = <<TRUE, <<"domain available">>>>) <=> HasNotFound(stdout)
        /\ (verdict = <<FALSE, <<"domain registered">>>>)
               <=> (~HasNotFound(stdout) /\ HasRegistered(stdout))
        /\ (verdict = <<FALSE, <<"unable to determine status">>>>)
               <=> (~HasNotFound(stdout) /\ ~HasRegistered(stdout))

\* A mixed-case text with a not-found phrase and "registrar:" was classified available.
C1_Witness ==
    /\ verdict = <<TRUE, <<"domain available">>>>
    /\ stdout # lower(stdout)
    /\ HasRegistered(stdout)
    /\ \A p \in NotFoundPhrases : ~contains(stdout, p)

Min(S) ==
    CHOOSE x \in S : \A y \in S : x <= y

Max(S) ==
    CHOOSE x \in S : \A y \in S : y <= x

\* Positions of the characters of a line that are not whitespace.
Visible(line) ==
    {i \in 1..Len(line) : line[i] \notin {" ", "\t", "\n", "\r"}}

Trimmed(line) ==
    IF Visible(line) = {} THEN <<>>
    ELSE SubSeq(line, Min(Visible(line)), Max(Visible(line)))

\* The line is neither blank nor a comment.
IsEntry(line) ==
    /\ Visible(line) # {}
    /\ line[Min(Visible(line))] # "#"

ExpectedWatchlist(lines) ==
    LET entries == SelectSeq(lines, IsEntry)
    IN  [i \in 1..Len(entries) |-> lower(Trimmed(entries[i]))]

ExampleLoaded ==
    << <<"e","x","a","m","p","l","e",".","c","o","m">>,
       <<"t","e","s","t",".","i","o">> >>

\* C9: for a watchlist file that exists, load_watchlist returns the lines
\* trimmed, without the lines that are blank or start with "#" after
\* trimming, lowercased, in file order and with duplicates kept; the
\* documented example file loads as <<"example.com", "test.io">>.
C9_LoadWatchlist ==
    (fileExists /\ pc # "start") =>
        /\ domains = ExpectedWatchlist(fileLines)
        /\ (fileLines = ExampleFile => domains = ExampleLoaded)

\* The example file has been loaded.
C9_Witness ==
    /\ pc = "loop"
    /\ fileLines = ExampleFile
    /\ domains = ExampleLoaded

\* The trigger channel is configured: GITHUB_OUTPUT names a path.
ChannelConfigured ==
    GITHUB_OUTPUT \notin {None, ""}

LineAvailableTrue ==
    <<"available=true", "\n">>

LineAvailableFalse ==
    <<"available=false", "\n">>

IsAvailableLine(line) ==
    line[1] \in {"available=true", "available=false"}

IsCountLine(line) ==
    line[1] = "count="

NoLookupAvailable ==
    \A i \in 1..Len(lookups) : ~lookups[i].is_available

\* main has left the lookup loop of a non-empty watchlist.
LoopOver ==
    \/ pc \in {"report", "save", "write", "output"}
    \/ pc = "done" /\ domains # <<>>

\* C2: in a run over a non-empty watchlist in which no lookup is classified
\* available, send_email is not called, available_domains.txt is not opened,
\* and at the end the trigger channel has received the one line
\* available=false if it is configured and nothing otherwise; no count line
\* is ever appended.
C2_NoneAvailable ==
    (domains # <<>> /\ NoLookupAvailable) =>
        /\ sendCalls = 0
        /\ smtpLog = <<>>
        /\ delivered = <<>>
        /\ resultFile = [state |-> "untouched", opens |-> 0, lines |-> <<>>]
        /\ ghAppended = IF pc = "done" /\ ChannelConfigured
                        THEN <<LineAvailableFalse>>
                        ELSE <<>>

\* A run over two entries, none available, has ended with the channel configured.
C2_Witness ==
    /\ pc = "done"
    /\ Len(lookups) = 2
    /\ NoLookupAvailable
    /\ ChannelConfigured
    /\ ghAppended = <<LineAvailableFalse>>

TransportFailures ==
    {"connect", "starttls", "login", "send_message"}

ResultFileOf(available) ==
    << <<"#", " ", "check time: ", Timestamp, "\n">> >>
        \o [i \in 1..Len(available) |-> available[i] \o <<"\n">>]

\* C3: when send_email fails, by incomplete credentials or by a failure
\* while connecting, upgrading to TLS, authenticating or submitting, it
\* returns False, nothing is delivered, and the run goes on: it is never
\* stopped, it writes available_domains.txt, appends the trigger lines if
\* the channel is configured, and ends with exit code 0.
C3_NotificationFailure ==
    (sendOutcome \in TransportFailures \cup {"incomplete"}) =>
        /\ sendResult = FALSE
        /\ delivered = <<>>
        /\ sendOutcome = "incomplete" <=>
               (SMTP_USER = "" \/ SMTP_PASSWORD = "" \/ NOTIFY_EMAIL = "")
        /\ sendOutcome = "incomplete" => smtpLog = <<>>
        /\ pc \in {"save", "write", "output", "done"}
        /\ pc # "done" => ENABLED Next
        /\ pc \in {"output", "done"} =>
               resultFile = [state |-> "closed", opens |-> 1,
                             lines |-> ResultFileOf(available_domains)]
        /\ pc = "done" =>
               /\ exitCode = 0
               /\ ChannelConfigured =>
                      /\ Len(ghAppended) = 2
                      /\ ghAppended[1] = LineAvailableTrue
                      /\ IsCountLine(ghAppended[2])
               /\ ~ChannelConfigured => ghAppended = <<>>

\* A run whose authentication was rejected has ended normally.
C3_Witness ==
    /\ pc = "done"
    /\ sendOutcome = "login"
    /\ ChannelConfigured
    /\ exitCode = 0
    /\ resultFile.state = "closed"

\* C4: when the watchlist file does not exist the process ends with a
\* non-zero exit code; no lookup is started, no email is sent, the result
\* file is not written and nothing is appended to the trigger channel.
C4_MissingWatchlist ==
    ~fileExists =>
        /\ pc \in {"start", "exited"}
        /\ pc = "start" => ENABLED LoadWatchlist
        /\ pc = "exited" => (exitCode # 0 /\ exitCode # -1 /\ ~ENABLED Next)
        /\ exitCode # 0
        /\ spawned = <<>>
        /\ lookups = <<>>
        /\ sendCalls = 0
        /\ delivered = <<>>
        /\ resultFile.opens = 0
        /\ ghAppended = <<>>

\* The run has ended on the missing file, with the channel configured.
C4_Witness ==
    /\ ~fileExists
    /\ pc = "exited"
    /\ exitCode = 1
    /\ ChannelConfigured

\* C5: send_email is called at most once, only with a non-empty
\* available_domains, and only when every watchlist entry's lookup has
\* finished and none is running.
C5_NotifierOnce ==
    /\ sendCalls <= 1
    /\ Len(delivered) <= sendCalls
    /\ sendCalls > 0 =>
           /\ available_domains # <<>>
           /\ running = 0
           /\ Len(spawned) = Len(domains)
           /\ Len(lookups) = Len(domains)

\* send_email has been called after two lookups, one of them not available.
C5_Witness ==
    /\ sendCalls = 1
    /\ Len(lookups) = 2
    /\ Len(available_domains) = 1

\* The watchlist entries among the first k whose lookup was classified
\* available, in watchlist order.
RECURSIVE AvailableAmong(_)
AvailableAmong(k) ==
    IF k = 0 THEN <<>>
    ELSE IF lookups[k].is_available
         THEN Append(AvailableAmong(k - 1), domains[k])
         ELSE AvailableAmong(k - 1)

IsDigit(c) ==
    c \in {"0", "1", "2", "3", "4", "5", "6", "7", "8", "9"}

DigitValue(c) ==
    CHOOSE v \in 0..9 : int_str(v) = <<c>>

\* The number a sequence of decimal digits denotes.
RECURSIVE ParseNat(_)
ParseNat(ds) ==
    IF ds = <<>> THEN 0
    ELSE 10 * ParseNat(SubSeq(ds, 1, Len(ds) - 1)) + DigitValue(ds[Len(ds)])

Occurrences(text, token) ==
    Cardinality({i \in 1..Len(text) : text[i] = token})

\* C6: available_domains is the subsequence of the watchlist, in file order
\* and with duplicates kept, of the entries classified available, complete
\* once the loop is over; a message that is composed states its length in
\* the subject and lists exactly that many items, one per domain; the
\* result file, once written, is the timestamp comment line followed by
\* those domains, one per line, in that order.
C6_AvailablePayload ==
    /\ Len(lookups) <= Len(domains)
    /\ available_domains = AvailableAmong(Len(lookups))
    /\ LoopOver => Len(lookups) = Len(domains)
    /\ \A m \in 1..Len(delivered) :
           /\ ParseNat(SelectSeq(delivered[m].Subject, IsDigit)) = Len(available_domains)
           /\ Occurrences(delivered[m].body, "<li>") = Len(available_domains)
           /\ Occurrences(delivered[m].body, "</li>") = Len(available_domains)
           /\ \A i \in 1..Len(available_domains) :
                  contains(delivered[m].body,
                           <<"<strong>">> \o available_domains[i] \o <<"</strong>">>)
    /\ resultFile.state = "closed" =>
           /\ Len(resultFile.lines) = Len(available_domains) + 1
           /\ resultFile.lines[1][1] = "#"
           /\ contains(resultFile.lines[1], <<Timestamp>>)
           /\ \A i \in 1..Len(available_domains) :
                  resultFile.lines[i + 1] = available_domains[i] \o <<"\n">>

\* The same domain, listed twice and available both times, has been mailed
\* and written twice.
C6_Witness ==
    /\ pc = "done"
    /\ Len(available_domains) = 2
    /\ available_domains[1] = available_domains[2]
    /\ Len(delivered) = 1
    /\ resultFile.state = "closed"

\* C7: the watchlist entries are looked up once each, one at a time and in
\* file order; a lookup that times out or raises is classified not
\* available with its own message and is not retried, and the loop always
\* goes on, so the run leaves the loop after exactly Len(domains) lookups.
C7_LookupLoop ==
    /\ running \in {0, 1}
    /\ Len(spawned) <= Len(domains)
    /\ Len(lookups) = Len(spawned) - running
    /\ \A i \in 1..Len(spawned) :
           /\ spawned[i].domain = domains[i]
           /\ spawned[i].program = "whois"
    /\ \A i \in 1..Len(lookups) :
           /\ lookups[i].domain = domains[i]
           /\ lookups[i].proc.kind = "timeout" =>
                  /\ ~lookups[i].is_available
                  /\ lookups[i].info = <<"lookup timed out">>
           /\ lookups[i].proc.kind = "exception" =>
                  /\ ~lookups[i].is_available
                  /\ lookups[i].info = <<"lookup error: ">> \o lookups[i].proc.text
           /\ lookups[i].proc.kind = "stdout" =>
                  lookups[i].info \notin {<<"lookup timed out">>,
                                          <<"lookup error: ">> \o lookups[i].proc.text}
    /\ pc = "loop" => ENABLED LookupStart
    /\ pc = "wait" => (running = 1 /\ ENABLED LookupFinish)
    /\ LoopOver =>
           /\ running = 0
           /\ Len(spawned) = Len(domains)
           /\ Len(lookups) = Len(domains)

\* After a timeout and an exception the run has reached its end.
C7_Witness ==
    /\ pc = "done"
    /\ Len(lookups) = 2
    /\ lookups[1].proc.kind = "timeout"
    /\ lookups[2].proc.kind = "exception"

\* C8 as stated: whenever a run completes with no domain available and the
\* trigger channel configured, for a watchlist of any length, available=false
\* has been appended and nothing else written.
C8_AsStated ==
    (pc = "done" /\ available_domains = <<>> /\ ChannelConfigured) =>
        /\ ghAppended = <<LineAvailableFalse>>
        /\ resultFile.opens = 0

\* C8: whenever a run completes with no domain available and the trigger
\* channel configured, the result file is not written and no count line is
\* appended; available=false is the one line appended when the loaded
\* watchlist is not empty, and nothing is appended when it is empty.
C8_NegativeSignal ==
    (pc = "done" /\ available_domains = <<>> /\ ChannelConfigured) =>
        /\ resultFile.opens = 0
        /\ \A i \in 1..Len(ghAppended) : ~IsCountLine(ghAppended[i])
        /\ domains # <<>> => ghAppended = <<LineAvailableFalse>>
        /\ domains = <<>> => ghAppended = <<>>

\* A run over one entry that is registered has ended with the channel configured.
C8_Witness ==
    /\ pc = "done"
    /\ ChannelConfigured
    /\ Len(domains) = 1
    /\ lookups[1].info = <<"domain registered">>
    /\ ghAppended = <<LineAvailableFalse>>

\* C10: the trigger channel receives at most one available= line;
\* available=true is appended only when available_domains.txt has been
\* written and closed in this run, and is followed at once by the single
\* count line, whose number is the number of domain lines of that file.
C10_TriggerSignal ==
    /\ Cardinality({i \in 1..Len(ghAppended) : IsAvailableLine(ghAppended[i])}) <= 1
    /\ Cardinality({i \in 1..Len(ghAppended) : IsCountLine(ghAppended[i])}) <= 1
    /\ \A i \in 1..Len(ghAppended) :
           IsAvailableLine(ghAppended[i]) \/ IsCountLine(ghAppended[i])
    /\ \A i \in 1..Len(ghAppended) :
           IsCountLine(ghAppended[i]) => (i > 1 /\ ghAppended[i - 1] = LineAvailableTrue)
    /\ \A i \in 1..Len(ghAppended) :
           ghAppended[i] = LineAvailableTrue =>
               /\ resultFile.state = "closed"
               /\ resultFile.opens = 1
               /\ i < Len(ghAppended)
               /\ IsCountLine(ghAppended[i + 1])
               /\ LET line == ghAppended[i + 1]
                      domainLines == {k \in 1..Len(resultFile.lines) :
                                          resultFile.lines[k][1] # "#"}
                  IN  /\ line[Len(line)] = "\n"
                      /\ Len(line) > 2
                      /\ \A k \in 2..(Len(line) - 1) : IsDigit(line[k])
                      /\ ParseNat(SubSeq(line, 2, Len(line) - 1)) = Cardinality(domainLines)
                      /\ Cardinality(domainLines) > 0

\* available=true and count=2 have been appended after a file of two domains.
C10_Witness ==
    /\ pc = "done"
    /\ Len(ghAppended) = 2
    /\ ghAppended[1] = LineAvailableTrue
    /\ ghAppended[2] = <<"count=", "2", "\n">>
    /\ Len(resultFile.lines) = 3

====
